---- MODULE Spec2Model ----
(***************************************************************************)
(* Model of scripts/wakatime_api.py: process_language_data, the language   *)
(* classification and time-reallocation engine.                            *)
(*                                                                         *)
(* Durations are numbers; the engine divides them, so bucket durations,    *)
(* Gradle shares and percents are modelled as exact rationals [n, d] in    *)
(* lowest terms (d > 0).  IEEE rounding of Python floats is not modelled;  *)
(* the properties that depend on it are stated "up to tolerance" in the    *)
(* specification and are checked here exactly.                             *)
(***************************************************************************)
EXTENDS Integers, Sequences, FiniteSets, TLC

(***************************************************************************)
(* Bounds of the explored inputs.                                          *)
(***************************************************************************)
MaxLen == 2
MaxTargetLen == 3
MaxSecs == 2
\* the largest finite float (sys.float_info.max), scaled down to a value that
\* exceeds every number the non-negative inputs below produce
FloatMax == 1000
\* the length bound of the raw inputs with unvalidated durations
MaxGarbageLen == 2
\* the length bound of the raw inputs of repeated calls
MaxCallLen == 2

(***************************************************************************)
(* Rational arithmetic.                                                    *)
(***************************************************************************)
RECURSIVE GCD(_, _)
GCD(a, b) == IF b = 0 THEN a ELSE GCD(b, a % b)

Abs(x) == IF x < 0 THEN -x ELSE x

Norm(n, d) ==
    LET g == GCD(Abs(n), d)
    IN  [n |-> (IF n < 0 THEN -(Abs(n) \div g) ELSE n \div g), d |-> d \div g]

Rat(i) == [n |-> i, d |-> 1]
RAdd(a, b) == Norm(a.n * b.d + b.n * a.d, a.d * b.d)
RMul(a, b) == Norm(a.n * b.n, a.d * b.d)
\* a / b for b > 0
RDiv(a, b) == Norm(a.n * b.d, a.d * b.n)
RLess(a, b) == a.n * b.d < b.n * a.d
RPos(a) == a.n > 0

(***************************************************************************)
(* Where the arithmetic raises.  The durations are Python ints: sums of    *)
(* ints are exact and unbounded, but an int that meets a float is          *)
(* converted to a float, and int / int yields a float; both raise          *)
(* OverflowError beyond the float range.  A float result beyond the range  *)
(* becomes inf and raises nothing.                                         *)
(***************************************************************************)
SecondsPerHour == 3600

\* float(a) for an int a
ToFloatFails(a) == Abs(a) > FloatMax

\* a / b for ints a and b
TrueDivFails(a, b) ==
    IF b = 0 THEN TRUE
    ELSE LET q == Abs(a) \div Abs(b)
             r == Abs(a) % Abs(b)
         IN  q > FloatMax \/ (q = FloatMax /\ r > 0)

\* the logged value seconds / 3600
PrintFails(seconds) == TrueDivFails(seconds, SecondsPerHour)

(***************************************************************************)
(* The fixed rule sets.                                                    *)
(***************************************************************************)
MEANINGLESS_LANGUAGES ==
    {"other", "others", "binary", "textmate", "text", "plaintext",
     "json", "yaml", "yml", "xml", "toml", "ini", "conf", "config",
     "markdown", "md", "txt", "log", "csv", "tsv",
     "git commit message", "git config", "git rebase",
     "tex", "latex", "bibtex", "xaml", "gitignore", "gitignore file",
     "batchfile", "batch", "class",
     "git", "pickle", "self", "sourcemap", "ssh config", "ssh_config",
     "diff", "prolog", "spi", "postscript", "asciidoc"}

CMAKE_LANGUAGES ==
    {"cmake", "cmakelist", "cmakelists", "makefile", "make", "ninja",
     "microsoft visual studio solution", "msvs"}

JUPYTER_LANGUAGES ==
    {"jupyter", "jupyter notebook", "ipynb", "pythonstub", "python stub"}

\* the java-auxiliary set with a Gradle target language in it
JAVA_RELATED_WithJava ==
    {"java properties", "properties", "mixin_json_configuration",
     "mixin json configuration", "idea_module", "idea module",
     "access transformers", "java"}

JAVA_RELATED ==
    {"java properties", "properties", "mixin_json_configuration",
     "mixin json configuration", "idea_module", "idea module",
     "access transformers"}

GRADLE_TARGET_LANGUAGES == {"java", "kotlin", "groovy"}

GRADLE_LABELS == {"gradle", "groovy gradle"}

\* a label missing from the frontend set
FRONTEND_LANGUAGES_NoJavaScript ==
    {"typescript", "html", "css", "scss", "sass", "less",
     "jsx", "tsx", "vue", "vue.js", "svelte", "tsconfig", "tsconfig.json"}

FRONTEND_LANGUAGES ==
    {"javascript", "typescript", "html", "css", "scss", "sass", "less",
     "jsx", "tsx", "vue", "vue.js", "svelte", "tsconfig", "tsconfig.json"}

SHELL_LANGUAGES ==
    {"bash", "shell", "shellscript", "shell script", "sh", "zsh", "nix",
     "actionscript", "powershell", "pwsh", "docker", "dockerfile"}

SHADER_LANGUAGES == {"glsl", "hlsl", "shaderlab", "f#"}

OBJC_VARIANTS == {"objective-c", "objectivec", "objective c", "objc"}

\* the standalone C++ label taken for a joint spelling
C_JOINT_LABELS_WithCpp == {"c/c++", "c/c", "c++/c", "c++"}

C_JOINT_LABELS == {"c/c++", "c/c", "c++/c"}

(***************************************************************************)
(* str.lower() and str.capitalize() on the labels that occur in the model. *)
(* A label that is not listed is already lowercase.                        *)
(***************************************************************************)
Lower(s) ==
    CASE s = "JSON" -> "json"
      [] s = "CMake" -> "cmake"
      [] s = "Jupyter" -> "jupyter"
      [] s = "Properties" -> "properties"
      [] s = "Gradle" -> "gradle"
      [] s = "CSS" -> "css"
      [] s = "HTML" -> "html"
      [] s = "JavaScript" -> "javascript"
      [] s = "Bash" -> "bash"
      [] s = "GLSL" -> "glsl"
      [] s = "Objective-C" -> "objective-c"
      [] s = "C/C++" -> "c/c++"
      [] s = "C" -> "c"
      [] s = "C++" -> "c++"
      [] s = "Rust" -> "rust"
      [] s = "Java" -> "java"
      [] s = "Kotlin" -> "kotlin"
      [] s = "Python" -> "python"
      [] OTHER -> s

Capitalize(s) ==
    CASE s = "java" -> "Java"
      [] s = "kotlin" -> "Kotlin"
      [] s = "groovy" -> "Groovy"
      [] OTHER -> s

(***************************************************************************)
(* Insertion-ordered dictionaries: a sequence of entries with unique keys. *)
(***************************************************************************)
HasKey(dict, k) == \E i \in 1..Len(dict) : dict[i].key = k

IndexOf(dict, k) == CHOOSE i \in 1..Len(dict) : dict[i].key = k

\* dict[k] = value: an existing key keeps its position, a new key is appended
DictSet(dict, k, value) ==
    IF HasKey(dict, k)
    THEN [dict EXCEPT ![IndexOf(dict, k)] = value]
    ELSE Append(dict, value)

\* if k not in dict: dict[k] = {name, 0};  dict[k]['total_seconds'] += secs
Accumulate(dict, k, name, secs) ==
    LET d1 == IF HasKey(dict, k)
              THEN dict
              ELSE Append(dict, [key |-> k, name |-> name, total_seconds |-> Rat(0)])
        i == IndexOf(d1, k)
    IN  [d1 EXCEPT ![i].total_seconds = RAdd(@, secs)]

RECURSIVE SumSeconds(_)
SumSeconds(dict) ==
    IF dict = <<>> THEN Rat(0)
    ELSE RAdd(dict[1].total_seconds, SumSeconds(Tail(dict)))

(***************************************************************************)
(* Pass 1: the observed durations of the Gradle target languages and the   *)
(* distribution computed from them.                                        *)
(***************************************************************************)
\* gradle_target_seconds[name_lower] = seconds, for each raw entry in order
RECURSIVE RecordTargets(_, _)
RecordTargets(raw_languages, recorded) ==
    IF raw_languages = <<>> THEN recorded
    ELSE LET lang == Head(raw_languages)
             name_lower == Lower(lang.name)
         IN  RecordTargets(Tail(raw_languages),
                 IF name_lower \in GRADLE_TARGET_LANGUAGES
                 THEN DictSet(recorded, name_lower,
                              [key |-> name_lower, seconds |-> lang.total_seconds])
                 ELSE recorded)

RECURSIVE SumRecorded(_)
SumRecorded(recorded) ==
    IF recorded = <<>> THEN 0
    ELSE recorded[1].seconds + SumRecorded(Tail(recorded))

\* no default share when no target language was observed
FallbackDistribution_None == <<>>

FallbackDistribution == << [key |-> "java", ratio |-> Rat(1)] >>

GradleDistribution(recorded) ==
    LET total_gradle_target == SumRecorded(recorded)
    IN  IF total_gradle_target > 0
        THEN [i \in 1..Len(recorded) |->
                 [key |-> recorded[i].key,
                  ratio |-> RDiv(Rat(recorded[i].seconds), Rat(total_gradle_target))]]
        ELSE FallbackDistribution

\* seconds / total_gradle_target, for each recorded language
Pass1Fails(recorded) ==
    LET total_gradle_target == SumRecorded(recorded)
    IN  IF total_gradle_target > 0
        THEN \E i \in 1..Len(recorded) :
                 TrueDivFails(recorded[i].seconds, total_gradle_target)
        ELSE FALSE

(***************************************************************************)
(* Pass 2: every raw entry receives the first matching disposition.        *)
(***************************************************************************)
\* the chain without its first check: discarded labels fall through
Disposition_NoDiscard(name_lower) ==
    IF name_lower \in CMAKE_LANGUAGES THEN "cmake"
    ELSE IF name_lower \in JUPYTER_LANGUAGES THEN "jupyter"
    ELSE IF name_lower \in JAVA_RELATED THEN "java_related"
    ELSE IF name_lower \in GRADLE_LABELS THEN "gradle"
    ELSE IF name_lower \in FRONTEND_LANGUAGES THEN "frontend"
    ELSE IF name_lower \in SHELL_LANGUAGES THEN "shell"
    ELSE IF name_lower \in SHADER_LANGUAGES THEN "shader"
    ELSE IF name_lower \in OBJC_VARIANTS THEN "objc"
    ELSE IF name_lower \in C_JOINT_LABELS THEN "c_joint"
    ELSE "default"

Disposition(name_lower) ==
    IF name_lower \in MEANINGLESS_LANGUAGES THEN "discard"
    ELSE IF name_lower \in CMAKE_LANGUAGES THEN "cmake"
    ELSE IF name_lower \in JUPYTER_LANGUAGES THEN "jupyter"
    ELSE IF name_lower \in JAVA_RELATED THEN "java_related"
    ELSE IF name_lower \in GRADLE_LABELS THEN "gradle"
    ELSE IF name_lower \in FRONTEND_LANGUAGES THEN "frontend"
    ELSE IF name_lower \in SHELL_LANGUAGES THEN "shell"
    ELSE IF name_lower \in SHADER_LANGUAGES THEN "shader"
    ELSE IF name_lower \in OBJC_VARIANTS THEN "objc"
    ELSE IF name_lower \in C_JOINT_LABELS THEN "c_joint"
    ELSE "default"

\* the function-local state before the scan
EmptyScan ==
    [language_dict |-> <<>>, cmake_seconds |-> 0, gradle_seconds |-> 0,
     frontend_seconds |-> 0, jupyter_seconds |-> 0, java_related_seconds |-> 0,
     shell_seconds |-> 0, shader_seconds |-> 0]

\* the second loop without its continue statements: an entry counted by an
\* accumulator also reaches the default rule
ScanEntry_NoContinue(st, lang) ==
    LET name == lang.name
        name_lower == Lower(name)
        seconds == lang.total_seconds
        disp == Disposition(name_lower)
        counted ==
            CASE disp = "cmake" -> [st EXCEPT !.cmake_seconds = @ + seconds]
              [] disp = "jupyter" -> [st EXCEPT !.jupyter_seconds = @ + seconds]
              [] disp = "java_related" -> [st EXCEPT !.java_related_seconds = @ + seconds]
              [] disp = "gradle" -> [st EXCEPT !.gradle_seconds = @ + seconds]
              [] disp = "frontend" -> [st EXCEPT !.frontend_seconds = @ + seconds]
              [] disp = "shell" -> [st EXCEPT !.shell_seconds = @ + seconds]
              [] disp = "shader" -> [st EXCEPT !.shader_seconds = @ + seconds]
              [] disp = "objc" ->
                    [st EXCEPT !.language_dict =
                         Accumulate(@, "objective-c", "Objective-C", Rat(seconds))]
              [] disp = "c_joint" ->
                    [st EXCEPT !.language_dict = Accumulate(@, "c", "C", Rat(seconds))]
              [] OTHER -> st
    IN  IF disp = "discard" THEN st
        ELSE [counted EXCEPT !.language_dict =
                  Accumulate(@, name_lower, name, Rat(seconds))]

\* one iteration of the second loop
ScanEntry(st, lang) ==
    LET name == lang.name
        name_lower == Lower(name)
        seconds == lang.total_seconds
        disp == Disposition(name_lower)
    IN  CASE disp = "discard" -> st
          [] disp = "cmake" -> [st EXCEPT !.cmake_seconds = @ + seconds]
          [] disp = "jupyter" -> [st EXCEPT !.jupyter_seconds = @ + seconds]
          [] disp = "java_related" -> [st EXCEPT !.java_related_seconds = @ + seconds]
          [] disp = "gradle" -> [st EXCEPT !.gradle_seconds = @ + seconds]
          [] disp = "frontend" -> [st EXCEPT !.frontend_seconds = @ + seconds]
          [] disp = "shell" -> [st EXCEPT !.shell_seconds = @ + seconds]
          [] disp = "shader" -> [st EXCEPT !.shader_seconds = @ + seconds]
          [] disp = "objc" ->
                [st EXCEPT !.language_dict =
                     Accumulate(@, "objective-c", "Objective-C", Rat(seconds))]
          [] disp = "c_joint" ->
                [st EXCEPT !.language_dict = Accumulate(@, "c", "C", Rat(seconds))]
          [] OTHER ->
                [st EXCEPT !.language_dict = Accumulate(@, name_lower, name, Rat(seconds))]

RECURSIVE Scan(_, _)
Scan(raw_languages, st) ==
    IF raw_languages = <<>> THEN st
    ELSE Scan(Tail(raw_languages), ScanEntry(st, Head(raw_languages)))

\* every rule but the default one logs seconds / 3600 before it continues
ScanFails(raw_languages) ==
    \E i \in 1..Len(raw_languages) :
        /\ Disposition(Lower(raw_languages[i].name)) # "default"
        /\ PrintFails(raw_languages[i].total_seconds)

(***************************************************************************)
(* Finalization: merge accumulators, synthetic buckets, Gradle.            *)
(***************************************************************************)
\* the merge target created for an empty accumulator too (>= for >)
FoldInto_AlsoZero(dict, seconds, k, name) ==
    IF seconds >= 0 THEN Accumulate(dict, k, name, Rat(seconds)) ELSE dict

\* the merge target assigned instead of added to
FoldInto_Overwrite(dict, seconds, k, name) ==
    IF seconds > 0
    THEN DictSet(dict, k, [key |-> k, name |-> name, total_seconds |-> Rat(seconds)])
    ELSE dict

\* if seconds > 0: create the bucket if absent, then add
FoldInto(dict, seconds, k, name) ==
    IF seconds > 0 THEN Accumulate(dict, k, name, Rat(seconds)) ELSE dict

\* the synthetic bucket created for an empty accumulator too (>= for >)
SetSynthetic_AlsoZero(dict, seconds, k, name) ==
    IF seconds >= 0
    THEN DictSet(dict, k, [key |-> k, name |-> name, total_seconds |-> Rat(seconds)])
    ELSE dict

\* if seconds > 0: language_dict[k] = {name, seconds}
SetSynthetic(dict, seconds, k, name) ==
    IF seconds > 0
    THEN DictSet(dict, k, [key |-> k, name |-> name, total_seconds |-> Rat(seconds)])
    ELSE dict

FoldMerges(st) ==
    FoldInto(FoldInto(FoldInto(st.language_dict,
                               st.cmake_seconds, "c++", "C++"),
                      st.jupyter_seconds, "python", "Python"),
             st.java_related_seconds, "java", "Java")

AddSynthetic(dict, st) ==
    SetSynthetic(SetSynthetic(SetSynthetic(dict,
                                           st.frontend_seconds, "frontend", "Frontend Langs"),
                              st.shell_seconds, "shell", "Shell Langs"),
                 st.shader_seconds, "shader", "Shader Langs")

\* each positive accumulator is logged as seconds / 3600
FoldFails(st) ==
    \E f \in {"cmake_seconds", "jupyter_seconds", "java_related_seconds",
              "frontend_seconds", "shell_seconds", "shader_seconds"} :
        st[f] > 0 /\ PrintFails(st[f])

RECURSIVE Distribute(_, _, _)
Distribute(dict, gradle_secs, distribution) ==
    IF distribution = <<>> THEN dict
    ELSE LET lang_key == distribution[1].key
             ratio == distribution[1].ratio
             distributed_seconds == RMul(Rat(gradle_secs), ratio)
         IN  Distribute(Accumulate(dict, lang_key, Capitalize(lang_key), distributed_seconds),
                        gradle_secs, Tail(distribution))

RedistributeGradle(dict, gradle_secs, distribution) ==
    IF gradle_secs > 0 THEN Distribute(dict, gradle_secs, distribution) ELSE dict

\* gradle_seconds * ratio converts the int gradle_seconds, and adding the
\* product to an existing bucket converts the bucket's int duration
RedistributeFails(dict, gradle_secs, distribution) ==
    /\ gradle_secs > 0
    /\ distribution # <<>>
    /\ \/ ToFloatFails(gradle_secs)
       \/ \E i \in 1..Len(distribution) :
              /\ HasKey(dict, distribution[i].key)
              /\ ToFloatFails(dict[IndexOf(dict, distribution[i].key)].total_seconds.n)

\* the buckets that hold a float: those that received a Gradle share
FloatKeys(gradle_secs, distribution) ==
    IF gradle_secs > 0
    THEN {distribution[i].key : i \in 1..Len(distribution)}
    ELSE {}

(***************************************************************************)
(* Totals, percentages and ordering.                                       *)
(***************************************************************************)
\* the total taken before the last bucket was added
RetainedTotal_WithoutLast(dict) ==
    IF dict = <<>> THEN Rat(0) ELSE SumSeconds(SubSeq(dict, 1, Len(dict) - 1))

RetainedTotal(dict) == SumSeconds(dict)

\* the percent cut to a whole number
Percent_Truncated(seconds, total) ==
    IF RPos(total)
    THEN Rat((seconds.n * total.d * 100) \div (seconds.d * total.n))
    ELSE Rat(0)

Percent(seconds, total) ==
    IF RPos(total) THEN RMul(RDiv(seconds, total), Rat(100)) ELSE Rat(0)

\* sum(...) adds the durations in dict order, starting from the int 0
RECURSIVE SumFails(_, _, _, _)
SumFails(dict, float_keys, acc, acc_is_float) ==
    IF dict = <<>> THEN FALSE
    ELSE LET lang == Head(dict)
             is_float == lang.key \in float_keys
             raises == IF is_float
                       THEN ~acc_is_float /\ ToFloatFails(acc.n)
                       ELSE acc_is_float /\ ToFloatFails(lang.total_seconds.n)
         IN  raises \/ SumFails(Tail(dict), float_keys,
                                RAdd(acc, lang.total_seconds),
                                acc_is_float \/ is_float)

\* total_seconds / total * 100, evaluated only for a positive total
PercentFails(dict, float_keys) ==
    LET total == RetainedTotal(dict)
        total_is_float == \E i \in 1..Len(dict) : dict[i].key \in float_keys
    IN  IF RPos(total)
        THEN \E i \in 1..Len(dict) :
                 IF dict[i].key \in float_keys THEN FALSE
                 ELSE IF total_is_float THEN ToFloatFails(dict[i].total_seconds.n)
                 ELSE TrueDivFails(dict[i].total_seconds.n, total.n)
        ELSE FALSE

NormalizeFails(dict, float_keys) ==
    SumFails(dict, float_keys, Rat(0), FALSE) \/ PercentFails(dict, float_keys)

\* the percent taken against the first bucket instead of the total
WithPercent_OfFirst(dict) ==
    [i \in 1..Len(dict) |->
        [name |-> dict[i].name,
         total_seconds |-> dict[i].total_seconds,
         percent |-> Percent(dict[i].total_seconds, dict[1].total_seconds)]]

WithPercent(dict) ==
    LET total == RetainedTotal(dict)
    IN  [i \in 1..Len(dict) |->
            [name |-> dict[i].name,
             total_seconds |-> dict[i].total_seconds,
             percent |-> Percent(dict[i].total_seconds, total)]]

\* the sort without reverse=True: ascending
RECURSIVE InsertDescending_Ascending(_, _)
InsertDescending_Ascending(sorted, e) ==
    IF sorted = <<>> THEN <<e>>
    ELSE IF RLess(e.total_seconds, Head(sorted).total_seconds)
         THEN <<e>> \o sorted
         ELSE <<Head(sorted)>> \o InsertDescending_Ascending(Tail(sorted), e)

\* list.sort(key=total_seconds, reverse=True): stable, descending
RECURSIVE InsertDescending(_, _)
InsertDescending(sorted, e) ==
    IF sorted = <<>> THEN <<e>>
    ELSE IF RLess(Head(sorted).total_seconds, e.total_seconds)
         THEN <<e>> \o sorted
         ELSE <<Head(sorted)>> \o InsertDescending(Tail(sorted), e)

RECURSIVE SortDescending(_, _)
SortDescending(list, sorted) ==
    IF list = <<>> THEN sorted
    ELSE SortDescending(Tail(list), InsertDescending(sorted, Head(list)))

Finish(dict) == SortDescending(WithPercent(dict), <<>>)

\* the whole function
process_language_data(raw_languages) ==
    LET distribution == GradleDistribution(RecordTargets(raw_languages, <<>>))
        st == Scan(raw_languages, EmptyScan)
        folded == AddSynthetic(FoldMerges(st), st)
    IN  Finish(RedistributeGradle(folded, st.gradle_seconds, distribution))

(***************************************************************************)
(* The raw inputs explored: every sequence, up to a length bound, over     *)
(* three families of labels with durations 0..MaxSecs, and the inputs of   *)
(* the specification's testable properties (section 8, P4 to P9).          *)
(* Durations are non-negative, as in the data model (RawLanguageEntry);    *)
(* labels repeat, also with a different casing.                            *)
(***************************************************************************)
MergeLabels ==
    {"JSON", "CMake", "C++", "Jupyter", "Python", "Properties",
     "CSS", "HTML", "Bash", "GLSL", "frontend", "Rust"}

CanonLabels ==
    {"Objective-C", "objc", "C/C++", "c++/c", "C", "c", "C++", "CMake", "JSON"}

TargetLabels == {"Java", "Kotlin", "kotlin", "Gradle", "Properties"}

Entry(name, seconds) == [name |-> name, total_seconds |-> seconds]

Entries(labels) == {Entry(l, s) : l \in labels, s \in 0..MaxSecs}

SeqsUpTo(S, n) == UNION {[1..k -> S] : k \in 0..n}

ExampleP4 == << Entry("gradle", 100) >>
ExampleP5 == << Entry("java", 300), Entry("kotlin", 100), Entry("gradle", 200) >>
ExampleP6 == << Entry("javascript", 50), Entry("css", 50), Entry("python", 100) >>
ExampleP6Cased == << Entry("JavaScript", 50), Entry("CSS", 50), Entry("Python", 100) >>
ExampleP7 == << Entry("Objective-C", 10), Entry("objc", 20) >>
ExampleP9 == << Entry("Rust", 10), Entry("rust", 5) >>

\* a lowercase raw label next to an accumulator that folds into its bucket
LowercaseMergeTarget == << Entry("python", 2), Entry("Jupyter", 1) >>

Examples ==
    {ExampleP4, ExampleP5, ExampleP6, ExampleP6Cased, ExampleP7, ExampleP9,
     LowercaseMergeTarget}

Inputs ==
    SeqsUpTo(Entries(MergeLabels), MaxLen)
        \cup SeqsUpTo(Entries(CanonLabels), MaxLen)
        \cup SeqsUpTo(Entries(TargetLabels), MaxTargetLen)
        \cup Examples

(***************************************************************************)
(* Raw inputs that are not validated: negative and zero durations, the     *)
(* empty name, and an int duration beyond the float range.                 *)
(***************************************************************************)
\* an int whose value in hours is beyond the float range
Huge == SecondsPerHour * (FloatMax + 1)

GarbageLabels == {"", "Java", "Gradle", "CMake", "JSON"}

GarbageSeconds == (-MaxSecs..MaxSecs) \cup {Huge}

NegativeTarget == << Entry("Java", 3), Entry("Kotlin", -1), Entry("Gradle", 2) >>

GarbageInputs ==
    SeqsUpTo({Entry(l, s) : l \in GarbageLabels, s \in GarbageSeconds}, MaxGarbageLen)
        \cup {NegativeTarget}

\* the raw lists handed to repeated calls
CallEntries ==
    {Entry("Java", 2), Entry("java", 1), Entry("Gradle", 1), Entry("CSS", 1),
     Entry("JSON", 1)}

CallInputs == SeqsUpTo(CallEntries, MaxCallLen)

(***************************************************************************)
(* CacheManager: one JSON file per key in the cache directory, holding the *)
(* time of the write, the key and the data.  The file name is the MD5      *)
(* digest of the key, taken here as distinct for distinct keys.  Times are *)
(* readings of datetime.now() in hours.                                    *)
(***************************************************************************)
\* the constructor's cache_duration_hours (24 by default)
cache_duration_hours == 2
\* the last reading of the clock
MaxTime == 4

\* the keys under which the program caches
CacheKeys == {"wakatime_raw_all_time_data", "github_contributions_372"}

None == [none |-> TRUE]

\* what wakatime_api takes from a statistics response and caches:
\* {'languages': ..., 'total_seconds': ...}; the defaults [] and 0 when the
\* response has neither
WakaTimeRawData ==
    { [languages |-> <<>>, total_seconds |-> 0],
      [languages |-> << Entry("Java", 2), Entry("Gradle", 1) >>, total_seconds |-> 3] }

\* one record of a day of the contribution calendar that counts
\* contribution_count contributions; the two formatted strings are kept as
\* their parts
Contribution(date, contribution_count) ==
    [date |-> <<date, "T12:00:00Z">>,
     repo |-> "GitHub Contributions",
     message |-> <<contribution_count, " contributions on ", date>>,
     source |-> "github"]

\* the non-empty contribution lists of a GraphQL response
ContributionLists ==
    { << Contribution("2024-01-01", 1) >>,
      << Contribution("2024-01-01", 2), Contribution("2024-01-01", 2) >> }

\* what github_api caches: a non-empty list of contributions (held in a
\* one-field record)
GitHubData == {[contributions |-> list] : list \in ContributionLists}

DataOf(key) ==
    IF key = "wakatime_raw_all_time_data" THEN WakaTimeRawData ELSE GitHubData

\* datetime.isoformat() and datetime.fromisoformat(): a string that parses
\* back to the time it was made from
IsoFormat(time) == [is_str |-> TRUE, parses |-> TRUE, time |-> time]

\* json.dump of {'timestamp': ..., 'key': ..., 'data': ...}: the text of the
\* file as json.load reads it
StoredEntry(time, key, data) ==
    [valid_json |-> TRUE, is_object |-> TRUE,
     has_timestamp |-> TRUE, timestamp |-> IsoFormat(time),
     key |-> key, has_data |-> TRUE, data |-> data]

\* the ways a stored file can be damaged
DamageKinds ==
    {"invalid_json", "not_object", "no_timestamp", "no_data",
     "bad_timestamp", "timestamp_not_str"}

Damaged(content, kind) ==
    CASE kind = "invalid_json" -> [content EXCEPT !.valid_json = FALSE]
      [] kind = "not_object" -> [content EXCEPT !.is_object = FALSE]
      [] kind = "no_timestamp" -> [content EXCEPT !.has_timestamp = FALSE]
      [] kind = "no_data" -> [content EXCEPT !.has_data = FALSE]
      [] kind = "bad_timestamp" -> [content EXCEPT !.timestamp.parses = FALSE]
      [] kind = "timestamp_not_str" -> [content EXCEPT !.timestamp.is_str = FALSE]

\* the locals of a fetch function before it has assigned any; cause is what
\* decided the way the call took
NoLocals == [cause |-> "none", total_seconds |-> 0]

\* files[key] is <<>> when the file does not exist, <<content>> otherwise
NoFiles == [key \in CacheKeys |-> <<>>]

\* a call of a CacheManager method: the time it was made at, the file it found
\* for its key, whether it returned or raised, and the value it returned
NoCall ==
    [op |-> "none", key |-> "", at |-> 0, found |-> <<>>,
     outcome |-> "returned", value |-> None]

Removed(files, key) == [files EXCEPT ![key] = <<>>]

\* an entry written exactly cache_duration ago counts as expired too
Expired_AtDuration(time, cached_time) == time - cached_time >= cache_duration_hours

\* datetime.now() - cached_time > self.cache_duration
Expired(time, cached_time) == time - cached_time > cache_duration_hours

\* get(key) at the given time: what it returns or that it raises, and the
\* files it leaves
CacheGetOutcome(files, key, time) ==
    LET content == files[key][1]
        missing == [outcome |-> "returned", value |-> None, files |-> Removed(files, key)]
        raised == [outcome |-> "raised", value |-> None, files |-> files]
    IN  IF files[key] = <<>>
        THEN [outcome |-> "returned", value |-> None, files |-> files]
        ELSE IF ~content.valid_json THEN missing
        ELSE IF ~content.is_object THEN raised
        ELSE IF ~content.has_timestamp THEN missing
        ELSE IF ~content.timestamp.is_str THEN raised
        ELSE IF ~content.timestamp.parses THEN missing
        ELSE IF Expired(time, content.timestamp.time) THEN missing
        ELSE IF ~content.has_data THEN missing
        ELSE [outcome |-> "returned", value |-> content.data, files |-> files]

\* set(key, data) at the given time
CacheSetFiles(files, key, data, time) ==
    [files EXCEPT ![key] = << StoredEntry(time, key, data) >>]

(***************************************************************************)
(* One call of process_language_data as a state machine.  The locals of   *)
(* the call are st (language_dict and the accumulators), the distribution  *)
(* and the result list; raw_languages is the caller's list, which the      *)
(* cache hands to every later call; previous remembers one earlier call.   *)
(***************************************************************************)
VARIABLES raw_languages, pc, gradle_distribution, st, processed_languages, previous,
          cache_files, now, written, cache_ret,
          api_key_set, fetch_pc, fetch_locals, fetch_result, events

\* the cache directory, the clock and the last call of a CacheManager method;
\* written remembers, for each key, the last set that no clear has followed
cache_vars == <<cache_files, now, written, cache_ret>>

\* one call of a fetch function: its position, its locals, its result and what
\* it did
fetch_vars == <<api_key_set, fetch_pc, fetch_locals, fetch_result, events>>

vars == <<raw_languages, pc, gradle_distribution, st, processed_languages, previous,
          cache_vars, fetch_vars>>

\* no cache file, no fetch under way
IoIdle ==
    /\ cache_files = NoFiles
    /\ now = 0
    /\ written = NoFiles
    /\ cache_ret = NoCall
    /\ api_key_set = TRUE
    /\ fetch_pc = "idle"
    /\ fetch_locals = NoLocals
    /\ fetch_result = None
    /\ events = <<>>

Init ==
    /\ raw_languages \in Inputs
    /\ pc = "pass1"
    /\ gradle_distribution = <<>>
    /\ st = EmptyScan
    /\ processed_languages = <<>>
    /\ previous = <<>>
    /\ IoIdle

\* first loop and the distribution
Pass1 ==
    /\ pc = "pass1"
    /\ LET recorded == RecordTargets(raw_languages, <<>>)
       IN  IF Pass1Fails(recorded)
           THEN pc' = "failed" /\ UNCHANGED gradle_distribution
           ELSE /\ gradle_distribution' = GradleDistribution(recorded)
                /\ pc' = "pass2"
    /\ UNCHANGED <<raw_languages, st, processed_languages, previous>>
    /\ UNCHANGED <<cache_vars, fetch_vars>>

\* a second loop that writes the lowercased name back into the raw entry
Pass2_LowercasesInput ==
    /\ pc = "pass2"
    /\ IF ScanFails(raw_languages)
       THEN pc' = "failed" /\ UNCHANGED st
       ELSE st' = Scan(raw_languages, st) /\ pc' = "fold"
    /\ raw_languages' = [i \in 1..Len(raw_languages) |->
                             [raw_languages[i] EXCEPT !.name = Lower(@)]]
    /\ UNCHANGED <<gradle_distribution, processed_languages, previous>>
    /\ UNCHANGED <<cache_vars, fetch_vars>>

\* second loop
Pass2 ==
    /\ pc = "pass2"
    /\ IF ScanFails(raw_languages)
       THEN pc' = "failed" /\ UNCHANGED st
       ELSE st' = Scan(raw_languages, st) /\ pc' = "fold"
    /\ UNCHANGED <<raw_languages, gradle_distribution, processed_languages, previous>>
    /\ UNCHANGED <<cache_vars, fetch_vars>>

\* merge accumulators and synthetic buckets
FoldAccumulators ==
    /\ pc = "fold"
    /\ IF FoldFails(st)
       THEN pc' = "failed" /\ UNCHANGED st
       ELSE /\ st' = [st EXCEPT !.language_dict = AddSynthetic(FoldMerges(st), st)]
            /\ pc' = "gradle"
    /\ UNCHANGED <<raw_languages, gradle_distribution, processed_languages, previous>>
    /\ UNCHANGED <<cache_vars, fetch_vars>>

\* step 3
Redistribute ==
    /\ pc = "gradle"
    /\ IF RedistributeFails(st.language_dict, st.gradle_seconds, gradle_distribution)
       THEN pc' = "failed" /\ UNCHANGED st
       ELSE /\ st' = [st EXCEPT !.language_dict =
                          RedistributeGradle(@, st.gradle_seconds, gradle_distribution)]
            /\ pc' = "percent"
    /\ UNCHANGED <<raw_languages, gradle_distribution, processed_languages, previous>>
    /\ UNCHANGED <<cache_vars, fetch_vars>>

\* step 4, sort and return
Normalize ==
    /\ pc = "percent"
    /\ IF NormalizeFails(st.language_dict,
                         FloatKeys(st.gradle_seconds, gradle_distribution))
       THEN pc' = "failed" /\ UNCHANGED processed_languages
       ELSE processed_languages' = Finish(st.language_dict) /\ pc' = "done"
    /\ UNCHANGED <<raw_languages, gradle_distribution, st, previous>>
    /\ UNCHANGED <<cache_vars, fetch_vars>>

Next == Pass1 \/ Pass2 \/ FoldAccumulators \/ Redistribute \/ Normalize

Spec == Init /\ [][Next]_vars

(***************************************************************************)
(* Repeated calls: the caller invokes the function again, on the cached    *)
(* raw list or on a newly fetched one; each call starts from fresh locals. *)
(***************************************************************************)
\* a call that starts from the locals the last call left behind
Reinvoke_KeepsLocals ==
    /\ pc = "done"
    /\ \E remember \in BOOLEAN :
           previous' = IF remember
                       THEN << [raw |-> raw_languages, result |-> processed_languages] >>
                       ELSE previous
    /\ raw_languages' \in CallInputs \cup {raw_languages}
    /\ pc' = "pass1"
    /\ UNCHANGED <<gradle_distribution, st, processed_languages>>
    /\ UNCHANGED <<cache_vars, fetch_vars>>

Reinvoke ==
    /\ pc = "done"
    /\ \E remember \in BOOLEAN :
           previous' = IF remember
                       THEN << [raw |-> raw_languages, result |-> processed_languages] >>
                       ELSE previous
    /\ raw_languages' \in CallInputs \cup {raw_languages}
    /\ pc' = "pass1"
    /\ gradle_distribution' = <<>>
    /\ st' = EmptyScan
    /\ processed_languages' = <<>>
    /\ UNCHANGED <<cache_vars, fetch_vars>>

NextCalls == Next \/ Reinvoke

InitCalls ==
    /\ raw_languages \in CallInputs
    /\ pc = "pass1"
    /\ gradle_distribution = <<>>
    /\ st = EmptyScan
    /\ processed_languages = <<>>
    /\ previous = <<>>
    /\ IoIdle

SpecCalls == InitCalls /\ [][NextCalls]_vars

InitGarbage ==
    /\ raw_languages \in GarbageInputs
    /\ pc = "pass1"
    /\ gradle_distribution = <<>>
    /\ st = EmptyScan
    /\ processed_languages = <<>>
    /\ previous = <<>>
    /\ IoIdle

SpecGarbage == InitGarbage /\ [][Next]_vars

Done == pc = "done"

(***************************************************************************)
(* Quantities of the raw input and of the output, computed from them alone.*)
(***************************************************************************)
\* the sum of total_seconds over the raw entries whose lowercased label is in labels
RECURSIVE RawSeconds(_, _)
RawSeconds(raw, labels) ==
    IF raw = <<>> THEN 0
    ELSE (IF Lower(Head(raw).name) \in labels THEN Head(raw).total_seconds ELSE 0)
             + RawSeconds(Tail(raw), labels)

RawLabels(raw) == {Lower(raw[i].name) : i \in 1..Len(raw)}

RawTotal(raw) == RawSeconds(raw, RawLabels(raw))

RECURSIVE OutputSeconds(_)
OutputSeconds(out) ==
    IF out = <<>> THEN Rat(0)
    ELSE RAdd(Head(out).total_seconds, OutputSeconds(Tail(out)))

RECURSIVE OutputPercents(_)
OutputPercents(out) ==
    IF out = <<>> THEN Rat(0)
    ELSE RAdd(Head(out).percent, OutputPercents(Tail(out)))

\* the output buckets displaying a given name
Named(out, name) == {i \in 1..Len(out) : out[i].name = name}

IsDiscarded(lang) == Lower(lang.name) \in MEANINGLESS_LANGUAGES

WithoutDiscarded(raw) == SelectSeq(raw, LAMBDA lang : ~IsDiscarded(lang))

(***************************************************************************)
(* C1  Conservation: for a raw input without discarded labels, the output  *)
(* durations sum to the input durations.                                   *)
(***************************************************************************)
C1_Conservation ==
    (Done /\ \A i \in 1..Len(raw_languages) : ~IsDiscarded(raw_languages[i]))
        => OutputSeconds(processed_languages) = Rat(RawTotal(raw_languages))

(***************************************************************************)
(* C2  Percent sum: when the retained total is positive, the output        *)
(* percents sum to 100.                                                    *)
(***************************************************************************)
C2_PercentSum ==
    (Done /\ RPos(OutputSeconds(processed_languages)))
        => OutputPercents(processed_languages) = Rat(100)

\* reached with a split that is not a whole percent (thirds)
C2_Witness ==
    /\ Done
    /\ RPos(OutputSeconds(processed_languages))
    /\ Len(processed_languages) >= 2
    /\ \E i \in 1..Len(processed_languages) : processed_languages[i].percent.d > 1

(***************************************************************************)
(* C3  Percent formula: each bucket's percent is its duration over the     *)
(* retained total (the sum of the output durations, not the raw total)     *)
(* times 100, and all percents are 0 exactly when the retained total is 0. *)
(***************************************************************************)
C3_PercentFormula ==
    Done =>
        LET out == processed_languages
            retained_total == OutputSeconds(out)
        IN  /\ RPos(retained_total) =>
                   \A i \in 1..Len(out) :
                       RMul(out[i].percent, retained_total)
                           = RMul(out[i].total_seconds, Rat(100))
            /\ (\A i \in 1..Len(out) : out[i].percent = Rat(0))
                   <=> (retained_total = Rat(0))

\* a discarded entry with a positive duration makes the raw total differ
\* from the retained total
C3_Witness ==
    /\ Done
    /\ RPos(OutputSeconds(processed_languages))
    /\ OutputSeconds(processed_languages) # Rat(RawTotal(raw_languages))
    /\ RawSeconds(raw_languages, MEANINGLESS_LANGUAGES) > 0
    /\ \E i \in 1..Len(processed_languages) :
           processed_languages[i].percent = Rat(100)

(***************************************************************************)
(* C4  Discard: removing the discarded entries from the raw input leaves   *)
(* the output unchanged; a discarded entry creates no bucket.              *)
(***************************************************************************)
C4_Discard ==
    Done =>
        /\ processed_languages = process_language_data(WithoutDiscarded(raw_languages))
        /\ \A i \in 1..Len(raw_languages) :
               IsDiscarded(raw_languages[i])
                   => Named(processed_languages, raw_languages[i].name) = {}
        /\ OutputSeconds(processed_languages)
               = OutputSeconds(process_language_data(WithoutDiscarded(raw_languages)))

C4_Witness ==
    /\ Done
    /\ \E i \in 1..Len(raw_languages) :
           IsDiscarded(raw_languages[i]) /\ raw_languages[i].total_seconds > 0
    /\ processed_languages # <<>>

(***************************************************************************)
(* Gradle quantities of the raw input.                                     *)
(***************************************************************************)
\* the duration of one language: all raw entries carrying its label
OwnSeconds(raw, k) == RawSeconds(raw, {k})

TargetSeconds(raw) == RawSeconds(raw, GRADLE_TARGET_LANGUAGES)

OrchestratorSeconds(raw) == RawSeconds(raw, GRADLE_LABELS)

BucketSeconds(dict, k) ==
    IF HasKey(dict, k) THEN dict[IndexOf(dict, k)].total_seconds ELSE Rat(0)

\* the buckets other than k are the same in both dictionaries
SameExcept(d1, d2, k) ==
    /\ {d1[i] : i \in {j \in 1..Len(d1) : d1[j].key # k}}
           = {d2[i] : i \in {j \in 1..Len(d2) : d2[j].key # k}}

(***************************************************************************)
(* C5  Gradle proportional split: when the durations of java, kotlin and   *)
(* groovy sum to a positive value, the redistribution adds to each         *)
(* observed target language's bucket the orchestrator seconds times that   *)
(* language's own duration over the sum of the target durations.           *)
(***************************************************************************)
C5_ProportionalSplit ==
    [][(pc = "gradle" /\ TargetSeconds(raw_languages) > 0) =>
           \A k \in GRADLE_TARGET_LANGUAGES \cap RawLabels(raw_languages) :
               BucketSeconds(st'.language_dict, k)
                   = RAdd(BucketSeconds(st.language_dict, k),
                          RMul(Rat(OrchestratorSeconds(raw_languages)),
                               RDiv(Rat(OwnSeconds(raw_languages, k)),
                                    Rat(TargetSeconds(raw_languages)))))]_vars

(***************************************************************************)
(* C6  Gradle fallback: when the durations of java, kotlin and groovy sum  *)
(* to zero, all orchestrator seconds are added to the Java bucket, created *)
(* with display name "Java" if absent, and to no other bucket; the input   *)
(* [gradle 100] yields exactly the bucket {Java, 100, 100}.                *)
(***************************************************************************)
C6_FallbackStep ==
    (pc = "gradle" /\ TargetSeconds(raw_languages) = 0
        /\ OrchestratorSeconds(raw_languages) > 0) =>
        LET before == st.language_dict
            after == st'.language_dict
        IN  /\ HasKey(after, "java")
            /\ BucketSeconds(after, "java")
                   = RAdd(BucketSeconds(before, "java"),
                          Rat(OrchestratorSeconds(raw_languages)))
            /\ after[IndexOf(after, "java")].name
                   = (IF HasKey(before, "java")
                      THEN before[IndexOf(before, "java")].name
                      ELSE "Java")
            /\ SameExcept(before, after, "java")

C6_GradleFallback ==
    /\ [][C6_FallbackStep]_vars
    /\ []((Done /\ raw_languages = ExampleP4) =>
              processed_languages
                  = << [name |-> "Java", total_seconds |-> Rat(100), percent |-> Rat(100)] >>)

\* the fallback applied although a target language occurs in the input
C6_Witness ==
    /\ pc = "percent"
    /\ TargetSeconds(raw_languages) = 0
    /\ OrchestratorSeconds(raw_languages) > 0
    /\ "kotlin" \in RawLabels(raw_languages)
    /\ BucketSeconds(st.language_dict, "java") = Rat(OrchestratorSeconds(raw_languages))

(***************************************************************************)
(* C7  Aggregate grouping.                                                 *)
(***************************************************************************)
AggregateGroups ==
    { [labels |-> FRONTEND_LANGUAGES, name |-> "Frontend Langs"],
      [labels |-> SHELL_LANGUAGES, name |-> "Shell Langs"],
      [labels |-> SHADER_LANGUAGES, name |-> "Shader Langs"] }

\* exactly one output bucket displays the name, and it holds the seconds
OneBucket(out, name, seconds) ==
    /\ Cardinality(Named(out, name)) = 1
    /\ \A i \in Named(out, name) : out[i].total_seconds = Rat(seconds)

\* no raw entry with a label of the set shows up under its own name
NoOwnBucket(raw, out, labels) ==
    \A i \in 1..Len(raw) :
        Lower(raw[i].name) \in labels => Named(out, raw[i].name) = {}

\* C7 as claimed: whenever entries of a group occur, they collapse into
\* exactly one bucket with the group's fixed name and their summed duration,
\* and none of them has a bucket of its own.
C7_AggregateAlways ==
    Done =>
        \A g \in AggregateGroups :
            (RawLabels(raw_languages) \cap g.labels # {}) =>
                /\ OneBucket(processed_languages, g.name, RawSeconds(raw_languages, g.labels))
                /\ NoOwnBucket(raw_languages, processed_languages, g.labels)

\* C7 amended: the entries of a group collapse into exactly one bucket with
\* the group's fixed name and their summed duration when that sum is
\* positive; when it is zero the group has no bucket; in both cases none of
\* the matched labels has a bucket of its own.
C7_AggregateGrouping ==
    Done =>
        \A g \in AggregateGroups :
            (RawLabels(raw_languages) \cap g.labels # {}) =>
                /\ RawSeconds(raw_languages, g.labels) > 0 =>
                       OneBucket(processed_languages, g.name,
                                 RawSeconds(raw_languages, g.labels))
                /\ RawSeconds(raw_languages, g.labels) = 0 =>
                       Named(processed_languages, g.name) = {}
                /\ NoOwnBucket(raw_languages, processed_languages, g.labels)

C7_Witness ==
    /\ Done
    /\ {"css", "html"} \subseteq RawLabels(raw_languages)
    /\ OwnSeconds(raw_languages, "css") > 0
    /\ OwnSeconds(raw_languages, "html") > 0
    /\ Named(processed_languages, "Frontend Langs") # {}

(***************************************************************************)
(* C8  The aggregate-grouping example (P6).                                *)
(***************************************************************************)
Bucket(name, seconds, percent) ==
    [name |-> name, total_seconds |-> Rat(seconds), percent |-> Rat(percent)]

OutputIs(out, buckets) ==
    /\ Len(out) = Cardinality(buckets)
    /\ {out[i] : i \in 1..Len(out)} = buckets

\* C8 as claimed: [javascript 50, css 50, python 100] yields exactly
\* {Frontend Langs, 100, 50} and {Python, 100, 50}.
C8_ExampleAsClaimed ==
    (Done /\ raw_languages = ExampleP6) =>
        OutputIs(processed_languages,
                 {Bucket("Frontend Langs", 100, 50), Bucket("Python", 100, 50)})

\* C8 amended: [javascript 50, css 50, python 100] yields exactly
\* {Frontend Langs, 100, 50} and {python, 100, 50}: the default bucket shows
\* the raw label's own casing; it is named "Python" when the raw label is.
C8_Example ==
    /\ (Done /\ raw_languages = ExampleP6) =>
           OutputIs(processed_languages,
                    {Bucket("Frontend Langs", 100, 50), Bucket("python", 100, 50)})
    /\ (Done /\ raw_languages = ExampleP6Cased) =>
           OutputIs(processed_languages,
                    {Bucket("Frontend Langs", 100, 50), Bucket("Python", 100, 50)})

C8_Witness ==
    /\ Done
    /\ raw_languages = ExampleP6
    /\ Len(processed_languages) = 2

(***************************************************************************)
(* C9  Canonicalization of the Objective-C variants and the C/C++ joint    *)
(* labels.                                                                 *)
(***************************************************************************)
\* the first raw entry, in input order, whose lowercased label is in labels
FirstEntry(raw, labels) ==
    raw[CHOOSE i \in 1..Len(raw) :
            /\ Lower(raw[i].name) \in labels
            /\ \A j \in 1..(i - 1) : Lower(raw[j].name) \notin labels]

ObjectiveCCollapses(raw, out) ==
    (RawLabels(raw) \cap OBJC_VARIANTS # {}) =>
        /\ OneBucket(out, "Objective-C", RawSeconds(raw, OBJC_VARIANTS))
        /\ \A i \in 1..Len(raw) :
               (Lower(raw[i].name) \in OBJC_VARIANTS /\ raw[i].name # "Objective-C")
                   => Named(out, raw[i].name) = {}

\* a standalone C++ label keeps its own bucket (which also receives the
\* build-tooling seconds)
CppStaysApart(raw, out) ==
    ("c++" \in RawLabels(raw)) =>
        OneBucket(out, FirstEntry(raw, {"c++"}).name,
                  RawSeconds(raw, {"c++"} \cup CMAKE_LANGUAGES))

\* C9 as claimed: the variants collapse into one bucket displaying
\* "Objective-C", the joint labels into one bucket displaying "C", each with
\* the summed duration of the collapsed entries; C++ is not merged into C.
C9_CanonicalAsClaimed ==
    Done =>
        /\ ObjectiveCCollapses(raw_languages, processed_languages)
        /\ (RawLabels(raw_languages) \cap C_JOINT_LABELS # {}) =>
               OneBucket(processed_languages, "C",
                         RawSeconds(raw_languages, C_JOINT_LABELS))
        /\ CppStaysApart(raw_languages, processed_languages)

\* C9 amended: the variants collapse into one bucket displaying
\* "Objective-C" with their summed duration; the joint labels collapse into
\* the bucket of the language C, which also holds the entries labelled C
\* itself (case-insensitively): its duration is the sum of both, and it
\* displays "C" unless an entry labelled C came first, whose casing it then
\* displays; C++ is not merged into C.
C9_Canonicalization ==
    Done =>
        /\ ObjectiveCCollapses(raw_languages, processed_languages)
        /\ (RawLabels(raw_languages) \cap C_JOINT_LABELS # {}) =>
               LET first == FirstEntry(raw_languages, C_JOINT_LABELS \cup {"c"})
                   display == IF Lower(first.name) = "c" THEN first.name ELSE "C"
               IN  /\ OneBucket(processed_languages, display,
                                RawSeconds(raw_languages, C_JOINT_LABELS \cup {"c"}))
                   /\ \A i \in 1..Len(raw_languages) :
                          (Lower(raw_languages[i].name) \in C_JOINT_LABELS \cup {"c"}
                              /\ raw_languages[i].name # display)
                              => Named(processed_languages, raw_languages[i].name) = {}
        /\ CppStaysApart(raw_languages, processed_languages)

\* a joint spelling collapsing into the bucket of an earlier entry labelled c
C9_Witness ==
    /\ Done
    /\ RawLabels(raw_languages) \cap C_JOINT_LABELS # {}
    /\ RawSeconds(raw_languages, C_JOINT_LABELS) > 0
    /\ OwnSeconds(raw_languages, "c") > 0
    /\ Named(processed_languages, "c") # {}

(***************************************************************************)
(* C10  Default rule: the raw entries that match no rule set and carry the *)
(* same label case-insensitively are summed into a single output bucket    *)
(* that displays the casing of the first of them; [Rust 10, rust 5] yields *)
(* exactly {Rust, 15, 100}.                                                *)
(***************************************************************************)
RuleLabels ==
    MEANINGLESS_LANGUAGES \cup CMAKE_LANGUAGES \cup JUPYTER_LANGUAGES
        \cup JAVA_RELATED \cup GRADLE_LABELS \cup FRONTEND_LANGUAGES
        \cup SHELL_LANGUAGES \cup SHADER_LANGUAGES \cup OBJC_VARIANTS
        \cup C_JOINT_LABELS

\* the buckets that other rules add seconds to
MergeTargetKeys == {"c++", "python", "java", "kotlin", "groovy", "c"}

C10_DefaultDedup ==
    /\ Done =>
           \A k \in RawLabels(raw_languages) \ RuleLabels :
               LET display == FirstEntry(raw_languages, {k}).name
                   out == processed_languages
               IN  /\ Cardinality(Named(out, display)) = 1
                   /\ \A i \in Named(out, display) :
                          IF k \in MergeTargetKeys
                          THEN ~RLess(out[i].total_seconds,
                                      Rat(OwnSeconds(raw_languages, k)))
                          ELSE out[i].total_seconds = Rat(OwnSeconds(raw_languages, k))
    /\ (Done /\ raw_languages = ExampleP9) =>
           OutputIs(processed_languages, {Bucket("Rust", 15, 100)})

(***************************************************************************)
(* C11  Empty input: an empty raw list, and a raw list whose entries are   *)
(* all discarded, yield an empty output list; no bucket exists, so no      *)
(* percent is computed, and the Gradle shares are the fallback, so nothing *)
(* is divided by a zero total.                                             *)
(***************************************************************************)
AllDiscarded(raw) == \A i \in 1..Len(raw) : IsDiscarded(raw[i])

C11_EmptyInput ==
    /\ AllDiscarded(raw_languages) => pc # "failed"
    /\ (pc # "pass1" /\ AllDiscarded(raw_languages)) =>
           gradle_distribution = FallbackDistribution
    /\ (pc \in {"percent", "done"} /\ AllDiscarded(raw_languages)) =>
           st.language_dict = <<>>
    /\ (Done /\ AllDiscarded(raw_languages)) => processed_languages = <<>>

\* a raw list of discarded entries only, with a positive duration
C11_Witness ==
    /\ Done
    /\ raw_languages # <<>>
    /\ AllDiscarded(raw_languages)
    /\ RawTotal(raw_languages) > 0
    /\ processed_languages = <<>>

(***************************************************************************)
(* C12  Ordering: the output list is sorted by total_seconds, not          *)
(* increasing from one entry to the next.                                  *)
(***************************************************************************)
C12_Ordering ==
    Done =>
        \A i \in 1..(Len(processed_languages) - 1) :
            ~RLess(processed_languages[i].total_seconds,
                   processed_languages[i + 1].total_seconds)

\* the sort moved a later, larger bucket to the front
C12_Witness ==
    /\ Done
    /\ Len(processed_languages) >= 2
    /\ processed_languages[1].name # st.language_dict[1].name
    /\ RLess(processed_languages[2].total_seconds,
             processed_languages[1].total_seconds)

(***************************************************************************)
(* C16  Synthetic buckets do not clobber scanned buckets: every bucket the *)
(* scan created is still in the bucket map after finalization, under its   *)
(* key and display name, with a duration that is not smaller.              *)
(***************************************************************************)
C16_NoClobber ==
    [][pc = "fold" =>
           \A i \in 1..Len(st.language_dict) :
               \E j \in 1..Len(st'.language_dict) :
                   /\ st'.language_dict[j].key = st.language_dict[i].key
                   /\ st'.language_dict[j].name = st.language_dict[i].name
                   /\ ~RLess(st'.language_dict[j].total_seconds,
                             st.language_dict[i].total_seconds)]_vars

(***************************************************************************)
(* C17  Merge folding: a non-zero build-tooling, notebook or               *)
(* java-auxiliary accumulator is added to the C++, Python or Java bucket;  *)
(* the bucket is created with the display name "C++", "Python" or "Java"   *)
(* if absent, and keeps its display name otherwise; a zero accumulator     *)
(* leaves the bucket as it was.                                            *)
(***************************************************************************)
MergeTargets ==
    { [seconds |-> "cmake_seconds", key |-> "c++", name |-> "C++"],
      [seconds |-> "jupyter_seconds", key |-> "python", name |-> "Python"],
      [seconds |-> "java_related_seconds", key |-> "java", name |-> "Java"] }

BucketName(dict, k) == dict[IndexOf(dict, k)].name

FoldedAsClaimed(before, after, seconds, k, name) ==
    IF seconds > 0
    THEN /\ HasKey(after, k)
         /\ BucketSeconds(after, k) = RAdd(BucketSeconds(before, k), Rat(seconds))
         /\ BucketName(after, k) =
                (IF HasKey(before, k) THEN BucketName(before, k) ELSE name)
    ELSE /\ HasKey(after, k) <=> HasKey(before, k)
         /\ HasKey(before, k) =>
                after[IndexOf(after, k)] = before[IndexOf(before, k)]

C17_MergeFolding ==
    [][pc = "fold" =>
           \A m \in MergeTargets :
               FoldedAsClaimed(st.language_dict, st'.language_dict,
                               st[m.seconds], m.key, m.name)]_vars

\* a notebook accumulator folded into a bucket that displays "python"
C17_Witness ==
    /\ pc = "gradle"
    /\ st.jupyter_seconds > 0
    /\ HasKey(st.language_dict, "python")
    /\ BucketName(st.language_dict, "python") = "python"
    /\ BucketSeconds(st.language_dict, "python")
           = Rat(RawSeconds(raw_languages, {"python"} \cup JUPYTER_LANGUAGES))
    /\ st.cmake_seconds = 0
    /\ ~HasKey(st.language_dict, "c++")

(***************************************************************************)
(* C18  Single disposition: after the second loop every accumulator holds  *)
(* the durations of the entries of its rule set, every bucket holds the    *)
(* durations of the entries of its key, and the accumulators and buckets   *)
(* together hold the durations of the entries that are not discarded: each *)
(* duration is counted once.                                               *)
(***************************************************************************)
Accumulators ==
    { [seconds |-> "cmake_seconds", labels |-> CMAKE_LANGUAGES],
      [seconds |-> "jupyter_seconds", labels |-> JUPYTER_LANGUAGES],
      [seconds |-> "java_related_seconds", labels |-> JAVA_RELATED],
      [seconds |-> "gradle_seconds", labels |-> GRADLE_LABELS],
      [seconds |-> "frontend_seconds", labels |-> FRONTEND_LANGUAGES],
      [seconds |-> "shell_seconds", labels |-> SHELL_LANGUAGES],
      [seconds |-> "shader_seconds", labels |-> SHADER_LANGUAGES] }

\* the lowercased labels whose entries the scan stores under key k
LabelsOfKey(k) ==
    IF k = "objective-c" THEN OBJC_VARIANTS
    ELSE IF k = "c" THEN C_JOINT_LABELS \cup {"c"}
    ELSE {k}

AccumulatedSeconds(s) ==
    s.cmake_seconds + s.jupyter_seconds + s.java_related_seconds + s.gradle_seconds
        + s.frontend_seconds + s.shell_seconds + s.shader_seconds

C18_SingleDisposition ==
    pc = "fold" =>
        /\ \A a \in Accumulators :
               st[a.seconds] = RawSeconds(raw_languages, a.labels)
        /\ \A i \in 1..Len(st.language_dict) :
               st.language_dict[i].total_seconds
                   = Rat(RawSeconds(raw_languages, LabelsOfKey(st.language_dict[i].key)))
        /\ RAdd(Rat(AccumulatedSeconds(st)), SumSeconds(st.language_dict))
               = Rat(RawSeconds(raw_languages,
                                RawLabels(raw_languages) \ MEANINGLESS_LANGUAGES))

\* a discarded entry and an entry counted by one accumulator in one scan
C18_Witness ==
    /\ pc = "fold"
    /\ Len(raw_languages) = 2
    /\ IsDiscarded(raw_languages[1]) /\ raw_languages[1].total_seconds > 0
    /\ raw_languages[2].total_seconds > 0
    /\ st.cmake_seconds = raw_languages[2].total_seconds
    /\ AccumulatedSeconds(st) = st.cmake_seconds
    /\ st.language_dict = <<>>

(***************************************************************************)
(* C19  Gradle shares use observed raw durations: when the raw durations   *)
(* of java, kotlin and groovy sum to a positive value, the share of each   *)
(* observed target language is the sum of the durations of its raw entries *)
(* over the sum of the durations of all target entries.                    *)
(***************************************************************************)
ShareOf(distribution, k) ==
    IF HasKey(distribution, k) THEN distribution[IndexOf(distribution, k)].ratio
    ELSE Rat(0)

C19_ObservedShares ==
    (pc # "pass1" /\ TargetSeconds(raw_languages) > 0) =>
        \A k \in GRADLE_TARGET_LANGUAGES \cap RawLabels(raw_languages) :
            /\ HasKey(gradle_distribution, k)
            /\ ShareOf(gradle_distribution, k)
                   = RDiv(Rat(OwnSeconds(raw_languages, k)),
                          Rat(TargetSeconds(raw_languages)))

(***************************************************************************)
(* C13  Totality: no call fails, whatever the names and the durations of   *)
(* the raw entries: negative, zero or of any size.                         *)
(***************************************************************************)
C13_Totality == pc # "failed"

(***************************************************************************)
(* C15  Percent range: every output entry has a percent between 0 and 100  *)
(* inclusive.                                                              *)
(***************************************************************************)
C15_PercentRange ==
    Done =>
        \A i \in 1..Len(processed_languages) :
            /\ ~RLess(processed_languages[i].percent, Rat(0))
            /\ ~RLess(Rat(100), processed_languages[i].percent)

\* both ends of the range in one output, and a value strictly inside in another
C15_Witness ==
    /\ Done
    /\ Len(processed_languages) >= 2
    /\ \/ /\ processed_languages[1].percent = Rat(100)
          /\ processed_languages[2].percent = Rat(0)
       \/ /\ RLess(Rat(0), processed_languages[2].percent)
          /\ RLess(processed_languages[1].percent, Rat(100))

(***************************************************************************)
(* C14  Determinism: a call returns the list that any earlier call on the  *)
(* same raw input returned, whatever calls were made in between: same      *)
(* buckets, durations, percents and order.                                 *)
(***************************************************************************)
C14_Determinism ==
    Done =>
        \A i \in 1..Len(previous) :
            previous[i].raw = raw_languages =>
                previous[i].result = processed_languages

\* a later call on the raw input of a remembered call, with merged buckets
C14_Witness ==
    /\ Done
    /\ previous # <<>>
    /\ previous[1].raw = raw_languages
    /\ Len(raw_languages) = 2
    /\ \A i \in 1..2 : ~IsDiscarded(raw_languages[i])
    /\ Len(processed_languages) = 1
    /\ previous[1].result = processed_languages

(***************************************************************************)
(* C20  Input is not mutated: no step of a call changes the raw list or    *)
(* any raw entry's name or total_seconds; the list changes only when the   *)
(* caller hands another one to the next call.                              *)
(***************************************************************************)
C20_InputUnchanged ==
    [][pc # "done" => raw_languages' = raw_languages]_vars

\* the cached raw list, with capitalized labels, processed a second time
C20_Witness ==
    /\ Done
    /\ previous # <<>>
    /\ previous[1].raw = raw_languages
    /\ raw_languages = << Entry("Java", 2), Entry("Gradle", 1) >>
    /\ \E i \in 1..Len(processed_languages) : processed_languages[i].name = "Java"

(***************************************************************************)
(* C21  Rule-set disjointness: the rule sets are pairwise disjoint and     *)
(* none contains a Gradle target language, so a label matches at most one  *)
(* rule and its disposition is that rule whatever the order of the checks. *)
(***************************************************************************)
RuleSets ==
    { [rule |-> "discard", labels |-> MEANINGLESS_LANGUAGES],
      [rule |-> "cmake", labels |-> CMAKE_LANGUAGES],
      [rule |-> "jupyter", labels |-> JUPYTER_LANGUAGES],
      [rule |-> "java_related", labels |-> JAVA_RELATED],
      [rule |-> "gradle", labels |-> GRADLE_LABELS],
      [rule |-> "frontend", labels |-> FRONTEND_LANGUAGES],
      [rule |-> "shell", labels |-> SHELL_LANGUAGES],
      [rule |-> "shader", labels |-> SHADER_LANGUAGES],
      [rule |-> "objc", labels |-> OBJC_VARIANTS],
      [rule |-> "c_joint", labels |-> C_JOINT_LABELS] }

MatchingRules(name_lower) == {r \in RuleSets : name_lower \in r.labels}

C21_Disjointness ==
    /\ \A r1, r2 \in RuleSets :
           r1.rule # r2.rule => r1.labels \cap r2.labels = {}
    /\ \A r \in RuleSets : r.labels \cap GRADLE_TARGET_LANGUAGES = {}
    /\ \A i \in 1..Len(raw_languages) :
           LET name_lower == Lower(raw_languages[i].name)
               matching == MatchingRules(name_lower)
           IN  /\ Cardinality(matching) <= 1
               /\ \A r \in matching : Disposition(name_lower) = r.rule
               /\ matching = {} => Disposition(name_lower) = "default"

\* a java-auxiliary entry and a java entry processed into one Java bucket
C21_Witness ==
    /\ Done
    /\ Len(raw_languages) = 2
    /\ Lower(raw_languages[1].name) \in GRADLE_TARGET_LANGUAGES
    /\ Lower(raw_languages[2].name) \in JAVA_RELATED
    /\ raw_languages[1].total_seconds > 0
    /\ raw_languages[2].total_seconds > 0
    /\ Len(processed_languages) = 1

(***************************************************************************)
(* The cache on its own: calls of set, get and clear in any order while    *)
(* the clock advances.  process_language_data is not running.              *)
(***************************************************************************)
engine_vars ==
    <<raw_languages, pc, gradle_distribution, st, processed_languages, previous>>

EngineIdle ==
    /\ raw_languages = <<>>
    /\ pc = "idle"
    /\ gradle_distribution = <<>>
    /\ st = EmptyScan
    /\ processed_languages = <<>>
    /\ previous = <<>>

CacheSet ==
    \E key \in CacheKeys : \E data \in DataOf(key) :
        /\ cache_files' = CacheSetFiles(cache_files, key, data, now)
        /\ written' = [written EXCEPT ![key] = << [time |-> now, data |-> data] >>]
        /\ cache_ret' = [op |-> "set", key |-> key, at |-> now, found |-> cache_files[key],
                         outcome |-> "returned", value |-> None]
        /\ UNCHANGED <<now, engine_vars, fetch_vars>>

CacheGet ==
    \E key \in CacheKeys :
        LET got == CacheGetOutcome(cache_files, key, now)
        IN  /\ cache_files' = got.files
            /\ cache_ret' = [op |-> "get", key |-> key, at |-> now, found |-> cache_files[key],
                             outcome |-> got.outcome, value |-> got.value]
            /\ UNCHANGED <<now, written, engine_vars, fetch_vars>>

\* clear(key)
CacheClear ==
    \E key \in CacheKeys :
        /\ cache_files' = Removed(cache_files, key)
        /\ written' = [written EXCEPT ![key] = <<>>]
        /\ cache_ret' = [op |-> "clear", key |-> key, at |-> now, found |-> cache_files[key],
                         outcome |-> "returned", value |-> None]
        /\ UNCHANGED <<now, engine_vars, fetch_vars>>

\* clear()
CacheClearAll ==
    /\ cache_files' = NoFiles
    /\ written' = NoFiles
    /\ cache_ret' = [op |-> "clear", key |-> "", at |-> now, found |-> <<>>,
                     outcome |-> "returned", value |-> None]
    /\ UNCHANGED <<now, engine_vars, fetch_vars>>

\* an hour passes
Tick ==
    /\ now < MaxTime
    /\ now' = now + 1
    /\ UNCHANGED <<cache_files, written, cache_ret, engine_vars, fetch_vars>>

InitCache == EngineIdle /\ IoIdle

NextCache == CacheSet \/ CacheGet \/ CacheClear \/ CacheClearAll \/ Tick

SpecCache == InitCache /\ [][NextCache]_vars

\* C22: a get returns the data of the most recent set of its key when that set
\* has not been followed by a clear and no more than cache_duration has passed
\* since it; otherwise it returns None and the entry is absent afterwards.  An
\* absent entry only becomes present again by a set of its key.
C22_CacheExpiry ==
    /\ [](cache_ret.op = "get" =>
            LET last == written[cache_ret.key]
                live == /\ last # <<>>
                        /\ cache_ret.at - last[1].time <= cache_duration_hours
            IN  /\ cache_ret.outcome = "returned"
                /\ live => cache_ret.value = last[1].data
                /\ ~live => cache_ret.value = None /\ cache_files[cache_ret.key] = <<>>)
    /\ [][\A key \in CacheKeys :
            cache_files[key] = <<>> /\ cache_files'[key] # <<>>
                => cache_ret'.op = "set" /\ cache_ret'.key = key]_vars

\* a get has just found an entry written more than cache_duration ago and
\* removed it
C22_Witness ==
    /\ cache_ret.op = "get"
    /\ written[cache_ret.key] # <<>>
    /\ cache_ret.at - written[cache_ret.key][1].time = cache_duration_hours + 1
    /\ cache_ret.found # <<>>
    /\ cache_ret.value = None
    /\ cache_files[cache_ret.key] = <<>>

(***************************************************************************)
(* The cache with files that something other than set has written to.      *)
(***************************************************************************)
IsCorrupted(content) ==
    \/ ~content.valid_json
    \/ ~content.is_object
    \/ ~content.has_timestamp
    \/ ~content.has_data
    \/ ~content.timestamp.is_str
    \/ ~content.timestamp.parses

\* a file that set has written is damaged on disk
Corrupt ==
    \E key \in CacheKeys : \E kind \in DamageKinds :
        /\ cache_files[key] # <<>>
        /\ ~IsCorrupted(cache_files[key][1])
        /\ cache_files' = [cache_files EXCEPT ![key] = << Damaged(cache_files[key][1], kind) >>]
        /\ UNCHANGED <<now, written, cache_ret, engine_vars, fetch_vars>>

NextCacheCorrupt == NextCache \/ Corrupt

SpecCacheCorrupt == InitCache /\ [][NextCacheCorrupt]_vars

\* C23: a get that finds a corrupted entry (text that is not JSON, no
\* timestamp or no data field, a timestamp that cannot be parsed) returns None
\* without raising and deletes the entry; a get leaves the entries of the
\* other keys as they were.
C23_CorruptionHandled ==
    /\ [](cache_ret.op = "get" /\ cache_ret.found # <<>> /\ IsCorrupted(cache_ret.found[1])
            => /\ cache_ret.outcome = "returned"
               /\ cache_ret.value = None
               /\ cache_files[cache_ret.key] = <<>>)
    /\ [][cache_ret'.op = "get" /\ cache_ret' # cache_ret
            => \A other \in CacheKeys \ {cache_ret'.key} :
                   cache_files'[other] = cache_files[other]]_vars

\* the corrupted entries that get does handle: text that is not JSON, an
\* object without timestamp or without data, a timestamp string that does not
\* parse
C23_HandledKinds ==
    (/\ cache_ret.op = "get"
     /\ cache_ret.found # <<>>
     /\ \E kind \in {"invalid_json", "no_timestamp", "no_data", "bad_timestamp"} :
            \E time \in 0..MaxTime : \E data \in DataOf(cache_ret.key) :
                cache_ret.found[1] = Damaged(StoredEntry(time, cache_ret.key, data), kind))
        => /\ cache_ret.outcome = "returned"
           /\ cache_ret.value = None
           /\ cache_files[cache_ret.key] = <<>>

\* a get has just removed an entry whose timestamp string does not parse
C23_HandledWitness ==
    /\ cache_ret.op = "get"
    /\ cache_ret.found # <<>>
    /\ ~cache_ret.found[1].timestamp.parses
    /\ cache_files[cache_ret.key] = <<>>

(***************************************************************************)
(* get_wakatime_all_time_stats_async: calls one after the other, each up   *)
(* to an await or to the call of process_language_data, whose passes run   *)
(* as above; the process starts with or without WAKATIME_API_KEY.          *)
(***************************************************************************)
WakaTimeKey == "wakatime_raw_all_time_data"

\* the {} of the early returns
EmptyResult == [empty |-> TRUE]

\* what a request can come to: raise_for_status or the transport raises; the
\* JSON has no 'data'; it has a 'data' that is not an object; it has one
StatsResponses ==
    { [kind |-> kind, data |-> None] : kind \in {"raises", "no_data", "malformed"} }
        \cup { [kind |-> "ok", data |-> data] : data \in WakaTimeRawData }

\* only a raising request ends the call early
ShortCircuits_OnlyRaises(response) == response.kind = "raises"

\* the responses after which the call returns {} (lines 82-84 and 98-102)
ShortCircuits(response) == response.kind # "ok"

\* stats_data['data'].get('languages', []) and .get('total_seconds', 0)
RawOf(response) ==
    IF response.data = None
    THEN [languages |-> <<>>, total_seconds |-> 0]
    ELSE response.data

\* process_language_data(raw_languages) is called
InvokeProcess(raw) ==
    /\ raw_languages' = raw
    /\ pc' = "pass1"
    /\ gradle_distribution' = <<>>
    /\ st' = EmptyScan
    /\ processed_languages' = <<>>
    /\ UNCHANGED previous

\* from the entry of the function to its first await or to the call of
\* process_language_data
WakaStart ==
    /\ fetch_pc \in {"idle", "returned", "raised"}
    /\ IF ~api_key_set
       THEN /\ fetch_pc' = "returned"
            /\ fetch_result' = EmptyResult
            /\ fetch_locals' = [cause |-> "no_key", total_seconds |-> 0]
            /\ events' = <<>>
            /\ UNCHANGED <<cache_vars, engine_vars>>
       ELSE LET got == CacheGetOutcome(cache_files, WakaTimeKey, now)
            IN  /\ cache_files' = got.files
                /\ cache_ret' = [op |-> "get", key |-> WakaTimeKey, at |-> now,
                                 found |-> cache_files[WakaTimeKey],
                                 outcome |-> got.outcome, value |-> got.value]
                /\ UNCHANGED <<now, written>>
                /\ fetch_result' = None
                /\ IF got.outcome = "raised"
                   THEN /\ fetch_pc' = "raised"
                        /\ fetch_locals' = NoLocals
                        /\ events' = <<"cache_get">>
                        /\ UNCHANGED engine_vars
                   ELSE IF got.value # None
                   THEN /\ fetch_pc' = "processing"
                        /\ fetch_locals' = [cause |-> "cached",
                                            total_seconds |-> got.value.total_seconds]
                        /\ events' = <<"cache_get", "process">>
                        /\ InvokeProcess(got.value.languages)
                   ELSE /\ fetch_pc' = "request1"
                        /\ fetch_locals' = NoLocals
                        /\ events' = <<"cache_get">>
                        /\ UNCHANGED engine_vars
    /\ UNCHANGED api_key_set

\* the all_time_since_today request, whose JSON is not used
WakaRequest1 ==
    /\ fetch_pc = "request1"
    /\ \E raises \in BOOLEAN :
           IF raises
           THEN /\ fetch_pc' = "returned"
                /\ fetch_result' = EmptyResult
                /\ fetch_locals' = [cause |-> "raises", total_seconds |-> 0]
           ELSE /\ fetch_pc' = "request2"
                /\ UNCHANGED <<fetch_result, fetch_locals>>
    /\ events' = Append(events, "request")
    /\ UNCHANGED <<api_key_set, cache_vars, engine_vars>>

\* the stats/all_time request and what follows it up to the call of
\* process_language_data
WakaRequest2 ==
    /\ fetch_pc = "request2"
    /\ \E response \in StatsResponses :
           IF ShortCircuits(response)
           THEN /\ fetch_pc' = "returned"
                /\ fetch_result' = EmptyResult
                /\ fetch_locals' = [cause |-> response.kind, total_seconds |-> 0]
                /\ events' = Append(events, "request")
                /\ UNCHANGED <<cache_vars, engine_vars>>
           ELSE /\ cache_files' = CacheSetFiles(cache_files, WakaTimeKey, RawOf(response), now)
                /\ written' = [written EXCEPT
                                 ![WakaTimeKey] = << [time |-> now, data |-> RawOf(response)] >>]
                /\ cache_ret' = [op |-> "set", key |-> WakaTimeKey, at |-> now,
                                 found |-> cache_files[WakaTimeKey],
                                 outcome |-> "returned", value |-> None]
                /\ UNCHANGED now
                /\ fetch_pc' = "processing"
                /\ fetch_locals' = [cause |-> response.kind,
                                    total_seconds |-> RawOf(response).total_seconds]
                /\ events' = events \o <<"request", "cache_set", "process">>
                /\ InvokeProcess(RawOf(response).languages)
                /\ UNCHANGED fetch_result
    /\ UNCHANGED api_key_set

\* process_language_data has returned or raised: the result is built and
\* returned, or the exception leaves the function
WakaReturn ==
    /\ fetch_pc = "processing"
    /\ pc \in {"done", "failed"}
    /\ IF pc = "done"
       THEN /\ fetch_pc' = "returned"
            /\ fetch_result' = [languages |-> processed_languages,
                                total_seconds |-> fetch_locals.total_seconds]
       ELSE /\ fetch_pc' = "raised"
            /\ UNCHANGED fetch_result
    /\ UNCHANGED <<api_key_set, fetch_locals, events, cache_vars, engine_vars>>

\* the cache is cleared between two calls
ClearBetweenCalls ==
    /\ fetch_pc \in {"idle", "returned", "raised"}
    /\ cache_files' = NoFiles
    /\ written' = NoFiles
    /\ cache_ret' = [op |-> "clear", key |-> "", at |-> now, found |-> <<>>,
                     outcome |-> "returned", value |-> None]
    /\ UNCHANGED <<now, engine_vars, fetch_vars>>

InitWakaTime ==
    /\ EngineIdle
    /\ cache_files = NoFiles
    /\ now = 0
    /\ written = NoFiles
    /\ cache_ret = NoCall
    /\ api_key_set \in BOOLEAN
    /\ fetch_pc = "idle"
    /\ fetch_locals = NoLocals
    /\ fetch_result = None
    /\ events = <<>>

NextWakaTime ==
    \/ WakaStart \/ WakaRequest1 \/ WakaRequest2 \/ WakaReturn
    \/ Pass1 \/ Pass2 \/ FoldAccumulators \/ Redistribute \/ Normalize
    \/ Tick \/ ClearBetweenCalls

SpecWakaTime == InitWakaTime /\ [][NextWakaTime]_vars

Happened(event) == \E i \in 1..Len(events) : events[i] = event

\* C24: a call that ends because the API key is missing, because a request
\* raised or because the statistics response has no 'data' returns {} and has
\* neither called process_language_data nor written the cache; whenever the
\* cache is written, what is written is the raw list that is handed to
\* process_language_data in the same step; every other call that returns has
\* called process_language_data, on the cached list or on the fetched one, and
\* returns its result.
C24_ShortCircuit ==
    /\ [](fetch_pc = "returned" /\ fetch_locals.cause \in {"no_key", "raises", "no_data"}
            => /\ fetch_result = EmptyResult
               /\ ~Happened("process")
               /\ ~Happened("cache_set")
               /\ pc \in {"idle", "done"}
               /\ cache_ret.op # "set")
    /\ [](fetch_pc = "returned" /\ fetch_locals.cause \in {"cached", "ok"}
            => /\ Happened("process")
               /\ pc = "done"
               /\ fetch_result = [languages |-> processed_languages,
                                  total_seconds |-> fetch_locals.total_seconds])
    /\ [][cache_files'[WakaTimeKey] # <<>> /\ cache_files'[WakaTimeKey] # cache_files[WakaTimeKey]
            => /\ cache_files'[WakaTimeKey][1].data.languages = raw_languages'
               /\ pc' = "pass1"
               /\ fetch_locals'.cause = "ok"]_vars
    /\ [][fetch_pc # "processing" /\ fetch_pc' = "processing" /\ fetch_locals'.cause = "cached"
            => /\ written[WakaTimeKey] # <<>>
               /\ raw_languages' = written[WakaTimeKey][1].data.languages
               /\ cache_files' = cache_files]_vars

\* a call has found the raw list in the cache, has processed it into
\* something else and has returned that
C24_Witness ==
    /\ fetch_pc = "returned"
    /\ fetch_locals.cause = "cached"
    /\ events = <<"cache_get", "process">>
    /\ fetch_result # EmptyResult
    /\ raw_languages # <<>>
    /\ cache_files[WakaTimeKey] # <<>>
    /\ cache_files[WakaTimeKey][1].data.languages = raw_languages
    /\ Len(fetch_result.languages) # Len(raw_languages)

(***************************************************************************)
(* get_github_contributions_async(372), as main calls it: calls one after  *)
(* the other, each up to an await.  A list is held in a one-field record.  *)
(***************************************************************************)
GitHubKey == "github_contributions_372"

\* one commit record of fetch_repo_commits
Commit ==
    [date |-> <<"2024-01-02", "T08:00:00Z">>, repo |-> "owner/repo",
     message |-> "fix", source |-> "github"]

\* what the GraphQL request can come to: it raises; the JSON has 'errors';
\* the JSON lacks a field the parsing reads; it parses into a list
GraphQLResponses ==
    { [kind |-> kind, contributions |-> <<>>] : kind \in {"raises", "errors", "malformed"} }
        \cup { [kind |-> "ok", contributions |-> list] : list \in ContributionLists \cup {<<>>} }

\* get_github_contributions_graphql: [] on 'errors' and on any exception
GraphQLResult(response) ==
    IF response.kind = "ok" THEN response.contributions ELSE <<>>

\* what the REST scan can come to: listing the repositories raises, or the
\* commits of the repositories are gathered (a repository whose request fails
\* counts for none)
RestResponses ==
    { [kind |-> "raises", commits |-> <<>>] }
        \cup { [kind |-> "ok", commits |-> list] : list \in {<<>>, <<Commit>>} }

RestResult(response) ==
    IF response.kind = "ok" THEN response.commits ELSE <<>>

\* any list counts as a result worth returning
Truthy_Always(contributions) == TRUE

\* if contributions:
Truthy(contributions) == contributions # <<>>

\* from the entry of the function to the cached return or to the GraphQL await
GitHubStart ==
    /\ fetch_pc \in {"idle", "returned", "raised"}
    /\ LET got == CacheGetOutcome(cache_files, GitHubKey, now)
       IN  /\ cache_files' = got.files
           /\ cache_ret' = [op |-> "get", key |-> GitHubKey, at |-> now,
                            found |-> cache_files[GitHubKey],
                            outcome |-> got.outcome, value |-> got.value]
           /\ events' = <<"cache_get">>
           /\ IF got.outcome = "raised"
              THEN /\ fetch_pc' = "raised"
                   /\ fetch_result' = None
                   /\ fetch_locals' = NoLocals
              ELSE IF got.value # None
              THEN /\ fetch_pc' = "returned"
                   /\ fetch_result' = got.value
                   /\ fetch_locals' = [cause |-> "cached", graphql |-> "none",
                                       rest |-> "none", contributions |-> <<>>]
              ELSE /\ fetch_pc' = "graphql"
                   /\ fetch_result' = None
                   /\ fetch_locals' = NoLocals
    /\ UNCHANGED <<now, written, api_key_set, engine_vars>>

\* the GraphQL query has been answered: a non-empty list is cached and
\* returned, anything else leads to the REST scan
GitHubGraphQL ==
    /\ fetch_pc = "graphql"
    /\ \E response \in GraphQLResponses :
           LET contributions == GraphQLResult(response)
               data == [contributions |-> contributions]
           IN  /\ fetch_locals' = [cause |-> "network", graphql |-> response.kind,
                                   rest |-> "none", contributions |-> contributions]
               /\ IF Truthy(contributions)
                  THEN /\ cache_files' = CacheSetFiles(cache_files, GitHubKey, data, now)
                       /\ written' = [written EXCEPT
                                        ![GitHubKey] = << [time |-> now, data |-> data] >>]
                       /\ cache_ret' = [op |-> "set", key |-> GitHubKey, at |-> now,
                                        found |-> cache_files[GitHubKey],
                                        outcome |-> "returned", value |-> None]
                       /\ events' = events \o <<"graphql", "cache_set">>
                       /\ fetch_pc' = "returned"
                       /\ fetch_result' = data
                  ELSE /\ events' = Append(events, "graphql")
                       /\ fetch_pc' = "rest"
                       /\ UNCHANGED <<cache_files, written, cache_ret, fetch_result>>
    /\ UNCHANGED <<now, api_key_set, engine_vars>>

\* the REST scan has ended: its commits, or [] when it raised, are returned
GitHubRest ==
    /\ fetch_pc = "rest"
    /\ \E response \in RestResponses :
           /\ fetch_locals' = [fetch_locals EXCEPT !.rest = response.kind]
           /\ fetch_result' = [contributions |-> RestResult(response)]
    /\ events' = Append(events, "rest")
    /\ fetch_pc' = "returned"
    /\ UNCHANGED <<api_key_set, cache_vars, engine_vars>>

NextGitHub == GitHubStart \/ GitHubGraphQL \/ GitHubRest \/ Tick \/ ClearBetweenCalls

SpecGitHub == InitCache /\ [][NextGitHub]_vars

\* a call starts
GitHubStartStep ==
    /\ fetch_pc \in {"idle", "returned", "raised"}
    /\ cache_ret'.op = "get"
    /\ now' = now

\* C25: a call that finds a cached list returns it with no request made; any
\* other call makes the GraphQL query first and runs the REST scan exactly when
\* the query gave no contributions; a non-empty GraphQL result is in the cache
\* when it is returned, a REST result never is; no call raises, and a call
\* whose two APIs both failed returns the empty list.
C25_FetchOrder ==
    /\ [](fetch_pc # "raised")
    /\ [](fetch_pc = "returned" /\ fetch_locals.cause = "cached"
            => events = <<"cache_get">> /\ fetch_result \in GitHubData)
    /\ [][GitHubStartStep /\ cache_files[GitHubKey] # <<>>
                /\ ~Expired(now, cache_files[GitHubKey][1].timestamp.time)
            => /\ fetch_pc' = "returned"
               /\ fetch_result' = cache_files[GitHubKey][1].data
               /\ cache_files' = cache_files]_vars
    /\ [](fetch_pc = "returned" /\ fetch_locals.cause = "network"
            => /\ events[1] = "cache_get" /\ events[2] = "graphql"
               /\ Happened("rest") <=> fetch_locals.contributions = <<>>
               /\ Happened("rest") => events = <<"cache_get", "graphql", "rest">>
               /\ ~Happened("rest")
                    => /\ events = <<"cache_get", "graphql", "cache_set">>
                       /\ fetch_result.contributions = fetch_locals.contributions
               /\ fetch_locals.graphql # "ok" /\ fetch_locals.rest = "raises"
                    => fetch_result.contributions = <<>>)
    /\ [][fetch_pc = "graphql" /\ fetch_pc' = "returned"
            => /\ fetch_result'.contributions # <<>>
               /\ cache_files'[GitHubKey] = << StoredEntry(now, GitHubKey, fetch_result') >>]_vars
    /\ [][fetch_pc = "rest" => cache_files' = cache_files]_vars

\* a call has missed the cache, its GraphQL query has raised, and it has
\* returned the commits of the REST scan without caching them
C25_Witness ==
    /\ fetch_pc = "returned"
    /\ fetch_locals.cause = "network"
    /\ fetch_locals.graphql = "raises"
    /\ events = <<"cache_get", "graphql", "rest">>
    /\ fetch_result = [contributions |-> <<Commit>>]
    /\ cache_files[GitHubKey] = <<>>

====
